---- MODULE Spec2Model ----
(***************************************************************************)
(* State-machine model of the hips package: the batch tile fetcher         *)
(* (hips/tiles/fetch.py), the painter (hips/draw/paint.py, hips/draw/ui.py)*)
(* and the pure helpers they use (hips/utils/healpix.py,                   *)
(* hips/tiles/tile.py, hips/tiles/io.py, hips/tiles/survey.py).            *)
(***************************************************************************)
EXTENDS Integers, Sequences, FiniteSets, TLC

VARIABLES
    caller,         \* who entered: "fetch_tiles" (direct call) or "painter"
    fetch_package,  \* fetch_tiles argument: 'urllib' or 'aiohttp'
    n_parallel,     \* fetch_tiles argument
    tile_metas,     \* fetch_tiles argument: list of HipsTileMeta
    _tile_urls,     \* fetch_tiles local: list of URLs, or <<>> before the call
    futures,        \* state of each submitted future, in submission order
    completed,      \* finished futures in completion order: [idx, outcome]
    response_all,   \* tiles_urllib / fetch_all_tiles_aiohttp local
    fetch_pc,       \* position inside fetch_tiles
    fetch_ret,      \* what fetch_tiles returned or raised
    geometry,       \* HipsPainter.geometry (WCSGeometry)
    hips_survey,    \* HipsPainter.hips_survey / fetch_tiles argument
    tile_format,    \* HipsPainter.tile_format
    precise,        \* HipsPainter.precise
    _tiles,         \* HipsPainter._tiles (None until fetched)
    draw_tiles,     \* HipsPainter.draw_tiles
    float_image,    \* HipsPainter.float_image (None until drawn)
    _stats,         \* HipsPainter._stats
    paint_pc,       \* position inside make_sky_image / HipsPainter.run
    result,         \* HipsDrawResult, or the exception make_sky_image raised
    call,           \* a stand-alone call of a helper: its name and arguments
    ret             \* what that call returned

fetchVars == <<fetch_package, n_parallel, tile_metas, _tile_urls, futures,
               completed, response_all, fetch_pc, fetch_ret>>
paintVars == <<geometry, tile_format, precise, _tiles, draw_tiles, float_image,
               _stats, paint_pc, result>>
callVars == <<call, ret>>
vars == <<caller, hips_survey, fetchVars, paintVars, callVars>>

\* Python's None, and a value that is not None.
None == [some |-> FALSE]
Some(v) == [some |-> TRUE, v |-> v]

\* The outcome of a call that may raise.
Ok(value) == [raised |-> FALSE, value |-> value]
Raise(exc) == [raised |-> TRUE, exc |-> exc]

\* ---------------------------------------------------------------- bounds
MaxTiles == 3
MaxIpix == 1
MaxParallel == 2
MaxPixels == 2

\* ------------------------------------------------------ small list helpers
Range(s) == {s[i] : i \in 1..Len(s)}

Max(S) == CHOOSE x \in S : \A y \in S : y <= x
Min(S) == CHOOSE x \in S : \A y \in S : x <= y

RECURSIVE SeqsUpTo(_, _)
SeqsUpTo(S, n) ==
    IF n = 0 THEN {<<>>}
    ELSE LET shorter == SeqsUpTo(S, n - 1)
         IN  shorter \cup {Append(s, x) : s \in {t \in shorter : Len(t) = n - 1}, x \in S}

RECURSIVE Pow2(_)
Pow2(n) == IF n <= 0 THEN 1 ELSE 2 * Pow2(n - 1)

\* --------------------------------------------------------- tiles/io.py
DirChunk == 10000

\* Mutant: the directory index not scaled back to a tile index.
_tile_default_location_unscaled(order, ipix, file_format) ==
    << <<"Norder", order>>, <<"Dir", ipix \div 10000>>, <<"Npix", ipix, file_format>> >>

_tile_default_location(order, ipix, file_format) ==
    LET dir_idx == (ipix \div DirChunk) * DirChunk
    IN  << <<"Norder", order>>, <<"Dir", dir_idx>>, <<"Npix", ipix, file_format>> >>

\* '/'.join(loc): a URL or path is modelled as the list of its '/'-separated
\* segments (a prefix that is never split is kept as one segment).
tile_default_url(order, ipix, file_format) ==
    _tile_default_location(order, ipix, file_format)

\* --------------------------------------------------------- tiles/tile.py
DefaultWidth == 512

\* compute_image_shape: (height, width[, channels]), or ValueError.
compute_image_shape(width, height, fmt) ==
    CASE fmt = "fits" -> Ok(<<height, width>>)
      [] fmt = "jpg" -> Ok(<<height, width, 3>>)
      [] fmt = "png" -> Ok(<<height, width, 4>>)
      [] OTHER -> Raise("ValueError")

HipsTileMeta(order, ipix, file_format, frame, width) ==
    [order |-> order, ipix |-> ipix, file_format |-> file_format,
     frame |-> frame, width |-> width]

\* HipsTile.__init__: meta, raw_data, and the decoded-array cache _data.
HipsTile(meta, raw_data) == [meta |-> meta, raw_data |-> raw_data]

\* A pixel array is the block of rows r0..r0+w-1 and columns c0..c0+w-1 of
\* the pixel grid of the survey tile `of`; `flipped` tells that its rows are
\* stored in reverse (image file) order.
Array(of, r0, c0, w, flipped) ==
    [of |-> of, r0 |-> r0, c0 |-> c0, w |-> w, flipped |-> flipped]

flipud(data) == [data EXCEPT !.flipped = ~@]

\* HipsTile.to_numpy: decode raw bytes; jpg and png are flipped to the FITS
\* orientation.
to_numpy(raw_data, fmt) ==
    CASE fmt = "fits" -> Ok(raw_data.image)
      [] fmt \in {"jpg", "png"} -> Ok(flipud(raw_data.image))
      [] OTHER -> Raise("ValueError")

\* HipsTile.data, where to_numpy returns
TileData(tile) == to_numpy(tile.raw_data, tile.meta.file_format).value

\* len(raw_data): one byte per pixel of the stored image.
RawLen(raw_data) == raw_data.image.w * raw_data.image.w

\* --------------------------------------------------------- tiles/survey.py
\* The DSS2Merged properties the tests of the package fetch.
DSS2Survey ==
    [hips_service_url |-> <<"http://alasky.u-strasbg.fr/DSS/DSS2Merged">>,
     hips_order |-> 9, hips_tile_width |-> 512, hips_frame |-> "equatorial"]

\* int(self.data['hips_order']); property values are kept as the numbers
\* their text denotes.
hips_order(survey) == survey.hips_order

\* int(self.data['hips_tile_width']), 512 when the key is absent.
tile_width(survey) ==
    IF "hips_tile_width" \in DOMAIN survey THEN survey.hips_tile_width
    ELSE DefaultWidth

\* url.rsplit('/', 1)[0]
rsplit_head(url) == IF Len(url) >= 2 THEN SubSeq(url, 1, Len(url) - 1) ELSE url

\* Mutant: the MOC access URL used whole.
base_url_moc_whole(survey) ==
    IF "hips_service_url" \in DOMAIN survey THEN [raised |-> FALSE, value |-> survey.hips_service_url]
    ELSE IF "moc_access_url" \in DOMAIN survey THEN [raised |-> FALSE, value |-> survey.moc_access_url]
    ELSE IF "properties_url" \in DOMAIN survey THEN [raised |-> FALSE, value |-> survey.properties_url]
    ELSE [raised |-> TRUE, exc |-> "ValueError"]

\* base_url: hips_service_url, else moc_access_url without its last segment,
\* else properties_url, else ValueError.
base_url(survey) ==
    IF "hips_service_url" \in DOMAIN survey THEN Ok(survey.hips_service_url)
    ELSE IF "moc_access_url" \in DOMAIN survey THEN Ok(rsplit_head(survey.moc_access_url))
    ELSE IF "properties_url" \in DOMAIN survey THEN Ok(survey.properties_url)
    ELSE Raise("ValueError")

\* self.base_url + '/' + tile_meta.tile_default_url
tile_url(survey, meta) ==
    IF base_url(survey).raised THEN base_url(survey)
    ELSE Ok(base_url(survey).value
            \o tile_default_url(meta.order, meta.ipix, meta.file_format))

astropy_frame(survey) ==
    CASE survey.hips_frame = "equatorial" -> "icrs"
      [] survey.hips_frame = "galactic" -> "galactic"
      [] survey.hips_frame = "ecliptic" -> "ecliptic"

\* What the server holds at a URL: the file of the whole survey tile it names
\* (image formats store their rows top-down, i.e. flipped).
ServerBytes(url, width) ==
    LET name == url[Len(url)]
    IN  [image |-> Array(<<url[Len(url) - 2][2], name[2]>>, 0, 0, width, name[3] # "fits")]

\* --------------------------------------------------------- utils/healpix.py
\* Angles are integers in units of 1e-4 degree.  A pixel of nside 1 has
\* resolution sqrt(4 pi / 12) rad = 58.6323014... deg; NsideOneRes100 is that
\* resolution in units of 1e-6 degree, so that comparisons with it are exact
\* on integer angles.
NsideOneRes100 == 58632301

\* np.array(np.log2(nside), dtype=int) for nside = sqrt(4 pi / res^2 / 12):
\* the logarithm truncated toward zero.
RECURSIVE FloorLog2Ratio(_, _, _)
FloorLog2Ratio(num, den, k) ==
    IF den > num - den THEN k ELSE FloorLog2Ratio(num, 2 * den, k + 1)

\* Mutant: the ratio inverted (npix = pixel_area / (4 pi)).
TruncLog2Nside_inverted(resolution) ==
    IF 100 * resolution <= NsideOneRes100
    THEN 0 - FloorLog2Ratio(NsideOneRes100, 100 * resolution, 0)
    ELSE FloorLog2Ratio(100 * resolution - 1, NsideOneRes100, 0)

\* pixel_area = resolution * resolution: the sign of the resolution is lost.
Abs(x) == IF x < 0 THEN 0 - x ELSE x

TruncLog2Nside(resolution) ==
    IF 100 * Abs(resolution) <= NsideOneRes100
    THEN FloorLog2Ratio(NsideOneRes100, 100 * Abs(resolution), 0)
    ELSE 0 - FloorLog2Ratio(100 * Abs(resolution) - 1, NsideOneRes100, 0)

\* level_to_nside(np.clip(level, 0, None))
level_to_nside(level) == Pow2(IF level < 0 THEN 0 ELSE level)

pixel_resolution_to_nside(resolution, round) ==
    CASE round = "up" -> level_to_nside(TruncLog2Nside(resolution) + 1)
      [] round = "down" -> level_to_nside(TruncLog2Nside(resolution))

\* np.round(np.log2(nside)).astype(int), nside a power of two
RECURSIVE nside_to_level(_)
nside_to_level(nside) == IF nside <= 1 THEN 0 ELSE 1 + nside_to_level(nside \div 2)

hips_order_for_pixel_resolution(tile_width_, resolution) ==
    nside_to_level(pixel_resolution_to_nside(resolution * tile_width_, "up"))

\* np.unique: the sorted list of the distinct values.
RECURSIVE SortedSeq(_)
SortedSeq(S) == IF S = {} THEN <<>> ELSE <<Min(S)>> \o SortedSeq(S \ {Min(S)})

\* Mutant: the np.unique call left out.
np_unique_missing(values) == values

np_unique(values) == SortedSeq(Range(values))

\* healpix_pixels_in_sky_image: hp.skycoord_to_healpix maps the sky position of
\* every image pixel to a HEALPix index (geom.pix_hpx holds, per pixel, that
\* index at order `order`); visit is the order in which the pixels are read.
healpix_pixels_in_sky_image(geom, visit) ==
    LET ipix == [k \in 1..Len(visit) |-> geom.pix_hpx[visit[k]]]
    IN  np_unique(ipix)

\* np.indices(shape): row-major traversal.
RowMajor(geom) == [k \in 1..Len(geom.pix_hpx) |-> k]

\* --------------------------------------------------------- draw/paint.py
EdgeLimit == 300
DiagLimit == 150
RatioNum == 7
RatioDen == 10

\* measure_tile_lengths: edges 0->1, 1->2, 2->3, 3->0 and diagonals 0->2,
\* 1->3 of the corner quadrilateral.  Lengths are kept squared (np.sqrt is
\* monotonic, corners are integer pixel coordinates).
measure_tile_lengths(corners) ==
    LET x == corners.x
        y == corners.y
        dist2(i, j) == (x[i] - x[j]) * (x[i] - x[j]) + (y[i] - y[j]) * (y[i] - y[j])
    IN  [edges |-> [i \in 1..4 |-> dist2((i % 4) + 1, i)],
         diagonals |-> <<dist2(1, 3), dist2(2, 4)>>]

\* The three comparisons of is_tile_distorted, on squared lengths.
\* Mutant: the edge threshold inclusive (>= 300).
EdgeTooLong_inclusive(len2) == len2 >= EdgeLimit * EdgeLimit

EdgeTooLong(len2) == len2 > EdgeLimit * EdgeLimit
DiagonalLong(len2) == len2 > DiagLimit * DiagLimit
RatioTooSmall(min2, max2) == RatioDen * RatioDen * min2 < RatioNum * RatioNum * max2

is_tile_distorted(corners) ==
    LET m == measure_tile_lengths(corners)
        max_edge == Max(Range(m.edges))
        max_diag == Max(Range(m.diagonals))
        min_diag == Min(Range(m.diagonals))
    IN  \/ EdgeTooLong(max_edge)
        \/ (DiagonalLong(max_diag) /\ RatioTooSmall(min_diag, max_diag))

\* tile_corner_pixel_coordinates
tile_corner_pixel_coordinates(width) ==
    LET w == width - 1
    IN  << <<w, 0>>, <<w, w>>, <<0, w>>, <<0, 0>> >>

\* --------------------------------------------------------- tiles/fetch.py
DefaultParallel == 5

tile_urls(metas, survey) ==
    IF Len(metas) > 0 /\ base_url(survey).raised THEN base_url(survey)
    ELSE Ok([i \in 1..Len(metas) |-> tile_url(survey, metas[i]).value])

\* A worker's outcome for one URL: the response dict, or the exception
\* urlopen / session.get raised (HTTP 404 or any other HTTP / network error;
\* no answer within `timeout` seconds).
Outcomes == {"ok", "error", "timeout"}

\* fetch_tile_urllib / fetch_tile_aiohttp on success
fetch_tile(url, survey) == [url |-> url, raw_data |-> ServerBytes(url, tile_width(survey))]

Running == {i \in 1..Len(futures) : futures[i] = "running"}
Queued == {i \in 1..Len(futures) : futures[i] = "queued"}

\* The re-ordering loop at the end of fetch_tiles: for every requested URL,
\* every response with that URL, paired with tile_metas[idx] where idx is
\* the response's position in response_all.
RECURSIVE MatchResponses(_, _, _, _)
MatchResponses(url, responses, metas, idx) ==
    IF idx > Len(responses) THEN <<>>
    ELSE (IF responses[idx].url = url
          THEN <<HipsTile(metas[idx], responses[idx].raw_data)>>
          ELSE <<>>)
         \o MatchResponses(url, responses, metas, idx + 1)

RECURSIVE SortTiles(_, _, _, _)
SortTiles(urls, responses, metas, k) ==
    IF k > Len(urls) THEN <<>>
    ELSE MatchResponses(urls[k], responses, metas, 1)
         \o SortTiles(urls, responses, metas, k + 1)

\* The number of fetches that may run at once: the worker threads of
\* ThreadPoolExecutor(max_workers=n_parallel), the connections of
\* TCPConnector(limit=n_parallel).
\* Mutant: one worker / connection too many.
MaxInFlight_one_more(package, parallel) == parallel + 1

MaxInFlight(package, parallel) ==
    IF package = "aiohttp" /\ parallel = 0 THEN MaxTiles + 1   \* limit=0: no limit
    ELSE parallel

\* fetch_tiles entry: pick the backend, compute the URLs, enter the backend.
\* ThreadPoolExecutor(max_workers=n_parallel) raises ValueError unless
\* n_parallel > 0; TCPConnector(limit=n_parallel) accepts any number.
FetchTilesCall ==
    /\ fetch_pc = "call"
    /\ LET urls == tile_urls(tile_metas, hips_survey)
       IN  IF urls.raised
           THEN /\ fetch_pc' = "raised"
                /\ fetch_ret' = [kind |-> "raise", exc |-> urls.exc]
                /\ UNCHANGED _tile_urls
           ELSE IF fetch_package = "urllib" /\ n_parallel <= 0
           THEN /\ fetch_pc' = "raised"
                /\ fetch_ret' = [kind |-> "raise", exc |-> "ValueError"]
                /\ _tile_urls' = urls.value
           ELSE /\ _tile_urls' = urls.value
                /\ fetch_pc' = IF Len(tile_metas) = 0 THEN "collect" ELSE "submit"
                /\ UNCHANGED fetch_ret
    /\ UNCHANGED <<caller, hips_survey, fetch_package, n_parallel, tile_metas,
                   futures, completed, response_all, paintVars, callVars>>

\* One iteration of the submit loop: executor.submit / asyncio.ensure_future.
Submit ==
    /\ fetch_pc = "submit"
    /\ futures' = Append(futures, "queued")
    /\ fetch_pc' = IF Len(futures) + 1 = Len(_tile_urls) THEN "collect" ELSE "submit"
    /\ UNCHANGED <<caller, hips_survey, fetch_package, n_parallel, tile_metas,
                   _tile_urls, completed, response_all, fetch_ret, paintVars, callVars>>

\* A free worker thread (urllib) takes the oldest queued work item; with
\* aiohttp the oldest waiting task gets a connection from the connector, and
\* no task runs before the main coroutine first awaits (after the loop).
StartFetch(i) ==
    /\ fetch_pc \in {"submit", "collect", "drain"}
    /\ fetch_package = "aiohttp" => fetch_pc = "collect"
    /\ i \in Queued
    /\ \A j \in Queued : i <= j
    /\ Cardinality(Running) < MaxInFlight(fetch_package, n_parallel)
    /\ futures' = [futures EXCEPT ![i] = "running"]
    /\ UNCHANGED <<caller, hips_survey, fetch_package, n_parallel, tile_metas,
                   _tile_urls, completed, response_all, fetch_pc, fetch_ret,
                   paintVars, callVars>>

\* A running fetch ends: the future holds the response or the exception.
\* The timeout of session.get covers the wait for a free connection, so an
\* aiohttp request can also time out before it got one.
FinishFetch(i, outcome) ==
    /\ fetch_pc \in {"submit", "collect"}
    /\ \/ i \in Running
       \/ /\ fetch_package = "aiohttp" /\ fetch_pc = "collect"
          /\ i \in Queued
          /\ outcome = "timeout"
    /\ futures' = [futures EXCEPT ![i] = "finished"]
    /\ completed' = Append(completed, [idx |-> i, outcome |-> outcome])
    /\ UNCHANGED <<caller, hips_survey, fetch_package, n_parallel, tile_metas,
                   _tile_urls, response_all, fetch_pc, fetch_ret, paintVars, callVars>>

\* One iteration of `for future in as_completed(futures)`:
\* response_all.append(future.result()), which re-raises the fetch's exception.
Collected == Len(response_all)

CollectOk ==
    /\ fetch_pc = "collect"
    /\ Collected < Len(completed)
    /\ completed[Collected + 1].outcome = "ok"
    /\ response_all' = Append(response_all,
                              fetch_tile(_tile_urls[completed[Collected + 1].idx], hips_survey))
    /\ UNCHANGED <<caller, hips_survey, fetch_package, n_parallel, tile_metas,
                   _tile_urls, futures, completed, fetch_pc, fetch_ret,
                   paintVars, callVars>>

\* future.result() raises.  With aiohttp the exception leaves
\* run_until_complete at once; with urllib it first has to leave the
\* `with ThreadPoolExecutor` block, whose exit waits for every work item.
CollectRaise ==
    /\ fetch_pc = "collect"
    /\ Collected < Len(completed)
    /\ completed[Collected + 1].outcome # "ok"
    /\ fetch_pc' = IF fetch_package = "urllib" THEN "drain" ELSE "raised"
    /\ fetch_ret' = IF fetch_package = "urllib" THEN fetch_ret
                    ELSE [kind |-> "raise", exc |-> completed[Collected + 1].outcome]
    /\ UNCHANGED <<caller, hips_survey, fetch_package, n_parallel, tile_metas,
                   _tile_urls, futures, completed, response_all, paintVars, callVars>>

\* urllib, executor shutting down: a work item ends, nobody reads its result.
FinishDrained(i) ==
    /\ fetch_pc = "drain"
    /\ i \in Running
    /\ futures' = [futures EXCEPT ![i] = "finished"]
    /\ UNCHANGED <<caller, hips_survey, fetch_package, n_parallel, tile_metas,
                   _tile_urls, completed, response_all, fetch_pc, fetch_ret,
                   paintVars, callVars>>

DrainDone ==
    /\ fetch_pc = "drain"
    /\ \A i \in 1..Len(futures) : futures[i] = "finished"
    /\ fetch_pc' = "raised"
    /\ fetch_ret' = [kind |-> "raise", exc |-> completed[Collected + 1].outcome]
    /\ UNCHANGED <<caller, hips_survey, fetch_package, n_parallel, tile_metas,
                   _tile_urls, futures, completed, response_all, paintVars, callVars>>

\* Mutant: fetch_tiles returns what has arrived, without waiting for the rest.
FetchTilesReturn_unjoined ==
    /\ fetch_pc = "collect"
    /\ Len(futures) = Len(_tile_urls)
    /\ fetch_pc' = "returned"
    /\ fetch_ret' = [kind |-> "return",
                     tiles |-> SortTiles(_tile_urls, response_all, tile_metas, 1)]
    /\ UNCHANGED <<caller, hips_survey, fetch_package, n_parallel, tile_metas,
                   _tile_urls, futures, completed, response_all, paintVars, callVars>>

\* The as_completed loop ends; the re-ordering loop runs; fetch_tiles returns.
FetchTilesReturn ==
    /\ fetch_pc = "collect"
    /\ Len(futures) = Len(_tile_urls)
    /\ Collected = Len(_tile_urls)
    /\ fetch_pc' = "returned"
    /\ fetch_ret' = [kind |-> "return",
                     tiles |-> SortTiles(_tile_urls, response_all, tile_metas, 1)]
    /\ UNCHANGED <<caller, hips_survey, fetch_package, n_parallel, tile_metas,
                   _tile_urls, futures, completed, response_all, paintVars, callVars>>

\* --------------------------------------------------------- draw/paint.py
\* Output-image pixel coordinates of a tile's four sky corners
\* (tile.meta.skycoord_corners.to_pixel(wcs)): the answer of the HEALPix and
\* WCS libraries, fixed per tile index.
Square(edge) == [x |-> <<0, edge, edge, 0>>, y |-> <<0, 0, edge, edge>>]
Kite(d1, d2) == [x |-> <<d1, 0, 0 - d1, 0>>, y |-> <<0, d2, 0, 0 - d2>>]

SkyCornersToPixel(geom, meta) ==
    CASE meta.ipix % 4 = 0 -> Square(300)
      [] meta.ipix % 4 = 1 -> Square(301)
      [] meta.ipix % 4 = 2 -> Kite(100, 70)
      [] OTHER -> Kite(100, 69)

\* Mutant: the desired order returned without the clip to the survey's order.
draw_hips_order_unclipped(geom, survey) ==
    hips_order_for_pixel_resolution(tile_width(survey), geom.resolution)

\* HipsPainter.draw_hips_order
draw_hips_order(geom, survey) ==
    LET resolution == geom.resolution
        desired_order == hips_order_for_pixel_resolution(tile_width(survey), resolution)
    IN  Min({desired_order, hips_order(survey)})

\* HipsPainter.tile_indices
tile_indices(geom, survey) == healpix_pixels_in_sky_image(geom, RowMajor(geom))

\* The tile_metas list built at the top of HipsPainter.tiles.
PainterTileMetas(geom, survey, fmt) ==
    LET idx == tile_indices(geom, survey)
    IN  [k \in 1..Len(idx) |->
            HipsTileMeta(draw_hips_order(geom, survey), idx[k], fmt,
                         astropy_frame(survey), DefaultWidth)]

\* image.save(bio, format='jpeg'): JPEG compression is lossy, the stored grid
\* is an approximation of the grid that was encoded.
jpeg_save(data) == [data EXCEPT !.of = Append(@, "jpeg")]

\* HipsTile.from_numpy
from_numpy(meta, data) ==
    CASE meta.file_format = "fits" -> Ok(HipsTile(meta, [image |-> data]))
      [] meta.file_format = "jpg" -> Ok(HipsTile(meta, [image |-> jpeg_save(flipud(data))]))
      [] meta.file_format = "png" -> Ok(HipsTile(meta, [image |-> flipud(data)]))
      [] OTHER -> Raise("ValueError")

\* Mutant: the second and third quadrant exchanged.
children_transposed(tile) ==
    LET d == to_numpy(tile.raw_data, tile.meta.file_format).value
        w == d.w \div 2
        data == << [d EXCEPT !.w = w],
                   [d EXCEPT !.r0 = @ + w, !.w = w],
                   [d EXCEPT !.c0 = @ + w, !.w = w],
                   [d EXCEPT !.r0 = @ + w, !.c0 = @ + w, !.w = w] >>
    IN  [idx \in 1..4 |->
            from_numpy([tile.meta EXCEPT !.order = @ + 1, !.ipix = @ * 4 + (idx - 1),
                                         !.width = DefaultWidth],
                       data[idx]).value]

\* Mutant: the children numbered from 4i + 1.
children_one_based(tile) ==
    LET d == TileData(tile)
        w == d.w \div 2
        data == << Array(d.of, d.r0, d.c0, w, d.flipped),
                   Array(d.of, d.r0, d.c0 + w, w, d.flipped),
                   Array(d.of, d.r0 + w, d.c0, w, d.flipped),
                   Array(d.of, d.r0 + w, d.c0 + w, w, d.flipped) >>
    IN  [idx \in 1..4 |->
            from_numpy(HipsTileMeta(tile.meta.order + 1, tile.meta.ipix * 4 + idx,
                                    tile.meta.file_format, tile.meta.frame, DefaultWidth),
                       data[idx]).value]

\* HipsTile.children
children(tile) ==
    LET d == TileData(tile)
        w == d.w \div 2
        data == << Array(d.of, d.r0, d.c0, w, d.flipped),
                   Array(d.of, d.r0, d.c0 + w, w, d.flipped),
                   Array(d.of, d.r0 + w, d.c0, w, d.flipped),
                   Array(d.of, d.r0 + w, d.c0 + w, w, d.flipped) >>
    IN  [idx \in 1..4 |->
            from_numpy(HipsTileMeta(tile.meta.order + 1, tile.meta.ipix * 4 + (idx - 1),
                                    tile.meta.file_format, tile.meta.frame, DefaultWidth),
                       data[idx]).value]

\* The precise branch of make_tile_list: the list `tiles` holds, per parent,
\* either the list of its children or the parent tile itself.
RefinedEntries(geom, parents) ==
    [k \in 1..Len(parents) |->
        IF is_tile_distorted(SkyCornersToPixel(geom, parents[k].meta))
        THEN [list |-> TRUE, tiles |-> children(parents[k])]
        ELSE [list |-> FALSE, tile |-> parents[k]]]

RECURSIVE Flatten(_, _)
Flatten(entries, k) ==
    IF k > Len(entries) THEN <<>> ELSE entries[k].tiles \o Flatten(entries, k + 1)

\* The loop raises where tile.children cannot decode the parent's data;
\* [tile for children in tiles for tile in children]: iterating an entry that
\* is a HipsTile, not a list, is a TypeError.
make_tile_list(geom, is_precise, parents) ==
    IF is_precise
    THEN LET entries == RefinedEntries(geom, parents)
         IN  IF \E k \in 1..Len(parents) :
                    /\ is_tile_distorted(SkyCornersToPixel(geom, parents[k].meta))
                    /\ to_numpy(parents[k].raw_data, parents[k].meta.file_format).raised
             THEN [raised |-> TRUE, exc |-> "ValueError"]
             ELSE IF \E k \in 1..Len(entries) : ~entries[k].list
             THEN [raised |-> TRUE, exc |-> "TypeError"]
             ELSE [raised |-> FALSE, draw_tiles |-> Flatten(entries, 1)]
    ELSE [raised |-> FALSE, draw_tiles |-> parents]

\* skimage warp of a tile onto the output grid: an output pixel gets the
\* tile's pixel value where the tile's sky footprint covers it, zero elsewhere.
PixelTile(geom, survey, p, order) ==
    IF order = draw_hips_order(geom, survey) THEN geom.pix_hpx[p]
    ELSE 4 * geom.pix_hpx[p] + (p % 4)

PixelValue(data) == 1 + data.of[2]

\* The footprints of neighbouring tiles overlap along their seam: where a
\* geometry has a `seam`, seam[p] is a second tile whose warp also covers
\* output pixel p (NoTile where there is none).
NoTile == 0 - 1

OnSeam(geom, p, tile) ==
    "seam" \in DOMAIN geom /\ geom.seam[p] = tile.meta.ipix

warp_image(geom, survey, tile) ==
    [p \in 1..Len(geom.pix_hpx) |->
        IF PixelTile(geom, survey, p, tile.meta.order) = tile.meta.ipix
           \/ OnSeam(geom, p, tile)
        THEN PixelValue(TileData(tile)) ELSE 0]

\* _make_empty_sky_image
_make_empty_sky_image(geom, fmt) ==
    LET shape == compute_image_shape(geom.shape.width, geom.shape.height, fmt)
    IN  IF shape.raised THEN shape
        ELSE Ok([dtype |-> "float32",
                 shape |-> shape.value,
                 px |-> [p \in 1..Len(geom.pix_hpx) |-> 0]])

\* Mutant: the warped tile written over the image where it has a value.
RECURSIVE draw_all_tiles_overwrite(_, _, _, _, _)
draw_all_tiles_overwrite(geom, survey, image, tiles, k) ==
    IF k > Len(tiles) THEN image
    ELSE LET tile_image == warp_image(geom, survey, tiles[k])
         IN  draw_all_tiles_overwrite(geom, survey,
                 [image EXCEPT !.px = [p \in DOMAIN image.px |->
                     IF tile_image[p] # 0 THEN tile_image[p] ELSE image.px[p]]],
                 tiles, k + 1)

\* draw_all_tiles: image += tile_image for every tile of the draw list.
RECURSIVE draw_all_tiles(_, _, _, _, _)
draw_all_tiles(geom, survey, image, tiles, k) ==
    IF k > Len(tiles) THEN image
    ELSE LET tile_image == warp_image(geom, survey, tiles[k])
         IN  draw_all_tiles(geom, survey,
                 [image EXCEPT !.px = [p \in DOMAIN image.px |-> image.px[p] + tile_image[p]]],
                 tiles, k + 1)

RECURSIVE consumed_memory(_, _)
consumed_memory(tiles, k) ==
    IF k > Len(tiles) THEN 0 ELSE RawLen(tiles[k].raw_data) + consumed_memory(tiles, k + 1)

\* The dtype of a decoded tile: uint8 for image formats, the file's own for FITS.
DataDtype(tile) == IF tile.meta.file_format = "fits" THEN "int16" ELSE "uint8"

\* run() -> make_tile_list() -> self.tiles: build the tile_metas list and,
\* as _tiles is None, call fetch_tiles with the painter's fetch options.
PainterTilesFetch ==
    /\ paint_pc = "run"
    /\ _tiles = None
    /\ tile_metas' = PainterTileMetas(geometry, hips_survey, tile_format)
    /\ fetch_pc' = "call"
    /\ paint_pc' = "make_tile_list"
    /\ UNCHANGED <<caller, hips_survey, fetch_package, n_parallel, _tile_urls, futures,
                   completed, response_all, fetch_ret, geometry, tile_format, precise,
                   _tiles, draw_tiles, float_image, _stats, result, callVars>>

\* fetch_tiles returned: self._tiles is set and the rest of make_tile_list runs.
MakeTileList ==
    /\ paint_pc = "make_tile_list"
    /\ fetch_pc = "returned"
    /\ _tiles' = Some(fetch_ret.tiles)
    /\ LET made == make_tile_list(geometry, precise, fetch_ret.tiles)
       IN  IF made.raised
           THEN /\ paint_pc' = "raised"
                /\ result' = [kind |-> "raise", exc |-> made.exc]
                /\ UNCHANGED draw_tiles
           ELSE /\ paint_pc' = "draw_all_tiles"
                /\ draw_tiles' = Some(made.draw_tiles)
                /\ UNCHANGED result
    /\ UNCHANGED <<caller, hips_survey, fetchVars, geometry, tile_format, precise,
                   float_image, _stats, callVars>>

\* fetch_tiles raised: the exception leaves make_tile_list, run and
\* make_sky_image.
PainterFetchRaised ==
    /\ paint_pc = "make_tile_list"
    /\ fetch_pc = "raised"
    /\ paint_pc' = "raised"
    /\ result' = fetch_ret
    /\ UNCHANGED <<caller, hips_survey, fetchVars, geometry, tile_format, precise,
                   _tiles, draw_tiles, float_image, _stats, callVars>>

\* run(): self.draw_all_tiles()
DrawAllTiles ==
    /\ paint_pc = "draw_all_tiles"
    /\ LET image == _make_empty_sky_image(geometry, tile_format)
       IN  IF image.raised
           THEN /\ paint_pc' = "raised"
                /\ result' = [kind |-> "raise", exc |-> image.exc]
                /\ UNCHANGED float_image
           ELSE /\ float_image' = Some(draw_all_tiles(geometry, hips_survey, image.value,
                                                     draw_tiles.v, 1))
                /\ paint_pc' = "stats"
                /\ UNCHANGED result
    /\ UNCHANGED <<caller, hips_survey, fetchVars, geometry, tile_format, precise,
                   _tiles, draw_tiles, _stats, callVars>>

\* run(): the tile_count and consumed_memory statistics.
RunStats ==
    /\ paint_pc = "stats"
    /\ _stats' = [tile_count |-> Len(draw_tiles.v),
                  consumed_memory |-> consumed_memory(draw_tiles.v, 1)]
    /\ paint_pc' = "from_painter"
    /\ UNCHANGED <<caller, hips_survey, fetchVars, geometry, tile_format, precise,
                   _tiles, draw_tiles, float_image, result, callVars>>

\* HipsDrawResult.from_painter: painter.image casts float_image to the dtype of
\* self.tiles[0].data (an IndexError on an empty list); painter.tiles is the
\* cached _tiles.
FromPainter ==
    /\ paint_pc = "from_painter"
    /\ IF Len(_tiles.v) = 0
       THEN /\ paint_pc' = "raised"
            /\ result' = [kind |-> "raise", exc |-> "IndexError"]
       ELSE /\ paint_pc' = "done"
            /\ result' = [kind |-> "return",
                          image |-> [float_image.v EXCEPT !.dtype = DataDtype(_tiles.v[1])],
                          tiles |-> _tiles.v,
                          stats |-> _stats]
    /\ UNCHANGED <<caller, hips_survey, fetchVars, geometry, tile_format, precise,
                   _tiles, draw_tiles, float_image, _stats, callVars>>

\* ------------------------------------------------------------------ Init
Ipix == 0..MaxIpix
DirectOrder == 7
Formats == {"fits", "jpg", "png"}

\* A 1 x n output image whose pixels have the given HEALPix indices.
Geometry(resolution, pix_hpx) ==
    [resolution |-> resolution,
     shape |-> [height |-> IF Len(pix_hpx) = 0 THEN 0 ELSE 1, width |-> Len(pix_hpx)],
     pix_hpx |-> pix_hpx]

NoGeometry == Geometry(1, <<>>)

DirectMetas ==
    {[i \in 1..Len(s) |-> HipsTileMeta(DirectOrder, s[i], "fits", "icrs", DefaultWidth)] :
        s \in SeqsUpTo(Ipix, MaxTiles)}

NoCall == [fn |-> "none"]
NoRet == [done |-> FALSE]
Returned(value) == [done |-> TRUE, raised |-> FALSE, value |-> value]
Raised(exc) == [done |-> TRUE, raised |-> TRUE, exc |-> exc]
Outcome(r) == IF r.raised THEN Raised(r.exc) ELSE Returned(r.value)

InitFetchIdle ==
    /\ _tile_urls = <<>>
    /\ futures = <<>>
    /\ completed = <<>>
    /\ response_all = <<>>
    /\ fetch_ret = [kind |-> "none"]

InitPaintIdle ==
    /\ _tiles = None
    /\ draw_tiles = None
    /\ float_image = None
    /\ _stats = [x \in {} |-> 0]
    /\ result = [kind |-> "none"]

\* A direct call fetch_tiles(tile_metas, hips_survey, n_parallel=..,
\* fetch_package=..).
InitDirect ==
    /\ caller = "fetch_tiles"
    /\ hips_survey = DSS2Survey
    /\ fetch_package \in {"urllib", "aiohttp"}
    /\ n_parallel \in (0 - 1)..MaxParallel
    /\ tile_metas \in DirectMetas
    /\ fetch_pc = "call"
    /\ InitFetchIdle
    /\ geometry = NoGeometry /\ tile_format = "fits" /\ precise = FALSE
    /\ paint_pc = "idle"
    /\ InitPaintIdle
    /\ call = NoCall /\ ret = NoRet

\* make_sky_image(geometry, hips_survey, tile_format, precise): a fresh
\* HipsPainter with fetch_opts=None, hence the defaults of fetch_tiles.
InitPainter ==
    /\ caller = "painter"
    /\ hips_survey \in {DSS2Survey, [DSS2Survey EXCEPT !.hips_tile_width = 500]}
    /\ fetch_package = "urllib"
    /\ n_parallel = DefaultParallel
    /\ tile_metas = <<>>
    /\ fetch_pc = "idle"
    /\ InitFetchIdle
    /\ geometry \in {Geometry(15, s) : s \in SeqsUpTo(Ipix, MaxPixels)}
    /\ tile_format \in {"fits", "png", "bmp"}
    /\ precise \in BOOLEAN
    /\ paint_pc = "run"
    /\ InitPaintIdle
    /\ call = NoCall /\ ret = NoRet

Init == InitDirect \/ InitPainter

Next ==
    \/ FetchTilesCall
    \/ Submit
    \/ \E i \in 1..MaxTiles + 1 : StartFetch(i)
    \/ \E i \in 1..MaxTiles + 1, o \in Outcomes : FinishFetch(i, o)
    \/ CollectOk
    \/ CollectRaise
    \/ \E i \in 1..MaxTiles + 1 : FinishDrained(i)
    \/ DrainDone
    \/ FetchTilesReturn
    \/ PainterTilesFetch
    \/ MakeTileList
    \/ PainterFetchRaised
    \/ DrawAllTiles
    \/ RunStats
    \/ FromPainter

Spec == Init /\ [][Next]_vars

\* ------------------------------------------- stand-alone helper calls
\* painter.draw_hips_order read on a painter that has not run, for a range of
\* pixel scales (MaxMantissa, MaxExp), tile widths and survey orders.
MaxMantissa == 7
MaxExp == 10
MaxNative == 12

Resolutions == {m * Pow2(j) : m \in 1..MaxMantissa, j \in 0..MaxExp}
TileWidths == {256, 512}

InitIdle ==
    /\ fetch_package = "urllib"
    /\ n_parallel = DefaultParallel
    /\ tile_metas = <<>>
    /\ fetch_pc = "idle"
    /\ InitFetchIdle
    /\ tile_format = "fits" /\ precise = FALSE
    /\ paint_pc = "idle"
    /\ InitPaintIdle
    /\ ret = NoRet

InitOrder ==
    /\ caller = "draw_hips_order"
    /\ InitIdle
    /\ geometry \in {Geometry(r, <<>>) : r \in Resolutions}
    /\ hips_survey \in {[DSS2Survey EXCEPT !.hips_order = o, !.hips_tile_width = w] :
                            o \in 0..MaxNative, w \in TileWidths}
    /\ call = [fn |-> "draw_hips_order"]

DrawHipsOrder ==
    /\ call.fn = "draw_hips_order"
    /\ ret = NoRet
    /\ ret' = Returned(draw_hips_order(geometry, hips_survey))
    /\ UNCHANGED <<caller, hips_survey, fetchVars, paintVars, call>>

SpecOrder == InitOrder /\ [][DrawHipsOrder]_vars

\* painter.tile_indices / healpix_pixels_in_sky_image for images of up to
\* ResolvePixels pixels, the pixels read in any order.
ResolvePixels == 3

VisitOrders(n) ==
    {f \in [1..n -> 1..n] : \A i, j \in 1..n : f[i] = f[j] => i = j}

InitResolve ==
    /\ caller = "healpix_pixels_in_sky_image"
    /\ InitIdle
    /\ hips_survey = DSS2Survey
    /\ geometry \in {Geometry(15, s) : s \in SeqsUpTo(0..MaxIpix + 1, ResolvePixels)}
    /\ call \in {[fn |-> "healpix_pixels_in_sky_image", visit |-> v] :
                    v \in VisitOrders(Len(geometry.pix_hpx))}

ResolveTiles ==
    /\ call.fn = "healpix_pixels_in_sky_image"
    /\ ret = NoRet
    /\ ret' = Returned(healpix_pixels_in_sky_image(geometry, call.visit))
    /\ UNCHANGED <<caller, hips_survey, fetchVars, paintVars, call>>

SpecResolve == InitResolve /\ [][ResolveTiles]_vars

\* is_tile_distorted on corner quadrilaterals around its thresholds: squares
\* of edge 300 +- SquareSpread and kites whose half diagonals are multiples
\* of KiteStep up to KiteStep * MaxHalfDiag.
SquareSpread == 3
KiteStep == 5
MaxHalfDiag == 45

CornerInputs ==
    {Square(EdgeLimit + d) : d \in (0 - SquareSpread)..SquareSpread}
    \cup {Kite(KiteStep * a, KiteStep * b) : a, b \in 0..MaxHalfDiag}

InitDistort ==
    /\ caller = "is_tile_distorted"
    /\ InitIdle
    /\ hips_survey = DSS2Survey
    /\ geometry = NoGeometry
    /\ call \in {[fn |-> "is_tile_distorted", corners |-> c] : c \in CornerInputs}

IsTileDistorted ==
    /\ call.fn = "is_tile_distorted"
    /\ ret = NoRet
    /\ ret' = Returned(is_tile_distorted(call.corners))
    /\ UNCHANGED <<caller, hips_survey, fetchVars, paintVars, call>>

SpecDistort == InitDistort /\ [][IsTileDistorted]_vars

\* ------------------------------------------------------- tiles/allsky.py
\* Pixel values are abstract: pixel (i, j) of an array is named by the
\* <<row, column>> of the pixel of the source grid `of` that it shows (the
\* rows of a flipped array run bottom-up).  blank_value is the 0 that
\* tiles_to_allsky_array fills with, which is also what a blank padding pixel
\* of an all-sky file holds.
blank_value == <<>>

ArrayHeight(data) == IF "h" \in DOMAIN data THEN data.h ELSE data.w

ArrayPixel(data, i, j) ==
    LET row == data.r0 + (IF data.flipped THEN ArrayHeight(data) - 1 - i ELSE i)
        col == data.c0 + j
    IN  IF "pad" \in DOMAIN data /\ <<row, col>> \in data.pad
        THEN blank_value
        ELSE <<row, col>>

\* data[i0 : i0 + w, j0 : j0 + w]
Window(data, i0, j0, w) ==
    [data EXCEPT !.r0 = IF data.flipped THEN @ + ArrayHeight(data) - i0 - w ELSE @ + i0,
                 !.c0 = @ + j0,
                 !.w = w,
                 !.h = w]

\* data.shape
ArrayShape(data) ==
    IF data.channels = 0
    THEN <<ArrayHeight(data), data.w>>
    ELSE <<ArrayHeight(data), data.w, data.channels>>

MaxAllskyOrder == 3

healpix_order_to_npix(order) == 12 * Pow2(2 * order)

\* int(np.sqrt(n))
IntSqrt(n) == CHOOSE k \in 0..n : k * k <= n /\ n < (k + 1) * (k + 1)

\* HipsTileAllskyArray properties
allsky_width(allsky) == ArrayShape(TileData(allsky))[2]
allsky_height(allsky) == ArrayShape(TileData(allsky))[1]
n_tiles(allsky) == healpix_order_to_npix(allsky.meta.order)
n_tiles_in_row(allsky) == IntSqrt(n_tiles(allsky))
allsky_tile_width(allsky) == allsky_width(allsky) \div n_tiles_in_row(allsky)

\* Mutant: the quotient and the remainder of divmod exchanged.
_tile_slice_transposed(ipix, tile_width_, n_in_row) ==
    [row |-> (ipix % n_in_row) * tile_width_, col |-> (ipix \div n_in_row) * tile_width_]

\* HipsTileAllskyArray._tile_slice: first row and column of the slice
_tile_slice(ipix, tile_width_, n_in_row) ==
    [row |-> (ipix \div n_in_row) * tile_width_, col |-> (ipix % n_in_row) * tile_width_]

\* HipsTileAllskyArray.tile
allsky_tile(allsky, ipix) ==
    LET meta == [allsky.meta EXCEPT !.ipix = ipix, !.width = allsky_tile_width(allsky)]
        tile_slice == _tile_slice(ipix, allsky_tile_width(allsky), n_tiles_in_row(allsky))
        data == flipud(Window(flipud(TileData(allsky)), tile_slice.row, tile_slice.col,
                              allsky_tile_width(allsky)))
    IN  from_numpy(meta, data).value

\* HipsTileAllskyArray.tiles
allsky_tiles(allsky) == [k \in 1..n_tiles(allsky) |-> allsky_tile(allsky, k - 1)]

\* n_tiles_in_col of tiles_to_allsky_array
n_tiles_in_col(n, n_in_row) == (n \div n_in_row) + 1

\* HipsTileAllskyArray.tiles_to_allsky_array: the array as its shape and its
\* pixel values; a pixel holds the value of the last tile pasted over it, the
\* paste being data[::-1][tile_slice] = tile.data[::-1].
tiles_to_allsky_array(tiles) ==
    LET n == Len(tiles)
        n_in_row == IntSqrt(n)
        tile_width_ == tiles[1].meta.width
        height == tile_width_ * n_tiles_in_col(n, n_in_row)
        width == tile_width_ * n_in_row
        first == ArrayShape(TileData(tiles[1]))
        Covers(k, r, c) ==
            LET s == _tile_slice(tiles[k].meta.ipix, tiles[k].meta.width, n_in_row)
                w == tiles[k].meta.width
            IN  /\ height - 1 - r \in s.row..(s.row + w - 1)
                /\ c \in s.col..(s.col + w - 1)
        Pasted(k, r, c) ==
            LET s == _tile_slice(tiles[k].meta.ipix, tiles[k].meta.width, n_in_row)
                w == tiles[k].meta.width
            IN  ArrayPixel(flipud(TileData(tiles[k])), height - 1 - r - s.row, c - s.col)
    IN  [shape |-> IF Len(first) = 3 THEN <<height, width, first[3]>> ELSE <<height, width>>,
         px |-> [r \in 0..(height - 1), c \in 0..(width - 1) |->
                    LET ks == {k \in 1..n : Covers(k, r, c)}
                    IN  IF ks = {} THEN blank_value ELSE Pasted(Max(ks), r, c)]]

\* An array's shape and pixel values
ArrayValues(data) ==
    [shape |-> ArrayShape(data),
     px |-> [r \in 0..(ArrayHeight(data) - 1), c \in 0..(data.w - 1) |-> ArrayPixel(data, r, c)]]

\* All-sky files of orders 0..MaxAllskyOrder with tiles of 1..MaxAllskyTileWidth
\* pixels: n_tiles_in_row columns of tiles and either just enough rows of
\* tiles or one more, every pixel with a value of its own except that the
\* padding (the pixels of no tile) may be blank.
MaxAllskyTileWidth == 2

AllskyChannels == [fits |-> {0}, png |-> {0, 3, 4}, jpg |-> {0, 3}]

CeilDiv(a, b) == (a + b - 1) \div b

AllskyPadding(order, w, rows) ==
    LET n == healpix_order_to_npix(order)
        cols == IntSqrt(n)
    IN  {<<r, c>> \in (0..(rows * w - 1)) \X (0..(cols * w - 1)) :
            ((rows * w - 1 - r) \div w) * cols + (c \div w) >= n}

AllskyFile(order, fmt, w, rows, channels, blank) ==
    HipsTile(HipsTileMeta(order, 0 - 1, fmt, "icrs", DefaultWidth),
             [image |-> [of |-> <<"Allsky", order>>, r0 |-> 0, c0 |-> 0,
                         w |-> IntSqrt(healpix_order_to_npix(order)) * w,
                         h |-> rows * w,
                         flipped |-> fmt # "fits",
                         channels |-> channels,
                         pad |-> IF blank THEN AllskyPadding(order, w, rows) ELSE {}]])

InitAllsky ==
    /\ caller = "HipsTileAllskyArray"
    /\ InitIdle
    /\ hips_survey = DSS2Survey
    /\ geometry = NoGeometry
    /\ \E order \in 0..MaxAllskyOrder, fmt \in {"fits", "png"}, w \in 1..MaxAllskyTileWidth,
          blank \in BOOLEAN :
          LET n == healpix_order_to_npix(order)
              cols == IntSqrt(n)
          IN  \E rows \in {CeilDiv(n, cols), (n \div cols) + 1}, ch \in AllskyChannels[fmt] :
                  call = [fn |-> "tiles",
                          allsky |-> AllskyFile(order, fmt, w, rows, ch, blank)]

\* allsky.tiles
AllskyTiles ==
    /\ call.fn = "tiles"
    /\ ret = NoRet
    /\ ret' = Returned(allsky_tiles(call.allsky))
    /\ UNCHANGED <<caller, hips_survey, fetchVars, paintVars, call>>

\* HipsTileAllskyArray.tiles_to_allsky_array(tiles)
TilesToAllskyArray ==
    /\ call.fn = "tiles"
    /\ ret.done
    /\ call' = [fn |-> "tiles_to_allsky_array", allsky |-> call.allsky, tiles |-> ret.value]
    /\ ret' = Returned(tiles_to_allsky_array(ret.value))
    /\ UNCHANGED <<caller, hips_survey, fetchVars, paintVars>>

SpecAllsky == InitAllsky /\ [][AllskyTiles \/ TilesToAllskyArray]_vars

\* allsky.tile(ipix) for the all-sky files above, in every format, and every
\* tile index of their order.
InitAllskyTile ==
    /\ caller = "HipsTileAllskyArray"
    /\ InitIdle
    /\ hips_survey = DSS2Survey
    /\ geometry = NoGeometry
    /\ \E order \in 0..MaxAllskyOrder, fmt \in Formats, w \in 1..MaxAllskyTileWidth :
          LET n == healpix_order_to_npix(order)
              cols == IntSqrt(n)
          IN  \E rows \in {CeilDiv(n, cols), (n \div cols) + 1}, ch \in AllskyChannels[fmt],
                 ipix \in 0..(n - 1) :
                  call = [fn |-> "tile", ipix |-> ipix,
                          allsky |-> AllskyFile(order, fmt, w, rows, ch, FALSE)]

AllskyTile ==
    /\ call.fn = "tile"
    /\ ret = NoRet
    /\ ret' = Returned(allsky_tile(call.allsky, call.ipix))
    /\ UNCHANGED <<caller, hips_survey, fetchVars, paintVars, call>>

SpecAllskyTile == InitAllskyTile /\ [][AllskyTile]_vars

\* survey.tile_url(tile_meta) for survey descriptors with any of the three
\* URL properties, and tile addresses on both sides of the directory chunks
\* up to MaxDirs * DirChunk.
MaxDirs == 2
MaxUrlOrder == 2
DirSpread == 1

UrlKeys == {"hips_service_url", "moc_access_url", "properties_url"}

UrlValues ==
    [hips_service_url |-> {<<"http://alasky.u-strasbg.fr/DSS/DSSColor">>},
     moc_access_url |-> {<<"http://alasky.u-strasbg.fr/DSS/DSSColorMoc", "Moc.fits">>,
                         <<"http://alasky.u-strasbg.fr/DSS/DSSColorMoc", "moc", "Moc.fits">>},
     properties_url |-> {<<"http://alasky.u-strasbg.fr/DSS/DSSColorMirror">>}]

UrlSurveys ==
    UNION {[keys -> UNION {UrlValues[k] : k \in keys}] : keys \in SUBSET UrlKeys}

UrlIpix ==
    {d * DirChunk + e : d \in 0..MaxDirs, e \in (0 - DirSpread)..DirSpread} \ {0 - 1}

InitUrl ==
    /\ caller = "tile_url"
    /\ InitIdle
    /\ geometry = NoGeometry
    /\ hips_survey \in {sv \in UrlSurveys : \A k \in DOMAIN sv : sv[k] \in UrlValues[k]}
    /\ call \in {[fn |-> "tile_url", tile_meta |-> HipsTileMeta(o, i, f, "icrs", DefaultWidth)] :
                    o \in 0..MaxUrlOrder, i \in UrlIpix, f \in Formats}

TileUrl ==
    /\ call.fn = "tile_url"
    /\ ret = NoRet
    /\ ret' = Outcome(tile_url(hips_survey, call.tile_meta))
    /\ UNCHANGED <<caller, hips_survey, fetchVars, paintVars, call>>

SpecUrl == InitUrl /\ [][TileUrl]_vars

\* hips_order_for_pixel_resolution called directly with positive, zero and
\* negative pixel scales.  With a zero scale npix = 4 pi / 0 is inf (or the
\* division already fails) and np.array(inf, dtype=int) cannot convert it: the
\* call raises, which of the two exceptions depending on the scalar type.
MatchResolutions == Resolutions \cup {0 - r : r \in Resolutions} \cup {0}

InitMatch ==
    /\ caller = "hips_order_for_pixel_resolution"
    /\ InitIdle
    /\ hips_survey = DSS2Survey
    /\ geometry = NoGeometry
    /\ call \in {[fn |-> "hips_order_for_pixel_resolution", tile_width |-> w, resolution |-> r] :
                    w \in TileWidths, r \in MatchResolutions}

HipsOrderForPixelResolution ==
    /\ call.fn = "hips_order_for_pixel_resolution"
    /\ ret = NoRet
    /\ IF call.resolution * call.tile_width = 0
       THEN ret' \in {Raised("OverflowError"), Raised("ZeroDivisionError")}
       ELSE ret' = Returned(hips_order_for_pixel_resolution(call.tile_width, call.resolution))
    /\ UNCHANGED <<caller, hips_survey, fetchVars, paintVars, call>>

SpecMatch == InitMatch /\ [][HipsOrderForPixelResolution]_vars

\* tile.children for tiles of orders 0..MaxChildOrder fetched from the server
\* in each format and frame, with pixel arrays of 2 x 2 up to
\* 2 * MaxChildWidth pixels a side.
MaxChildOrder == 2
MaxChildIpix == 3
MaxChildWidth == 3

InitChildren ==
    /\ caller = "children"
    /\ InitIdle
    /\ hips_survey = DSS2Survey
    /\ geometry = NoGeometry
    /\ \E o \in 0..MaxChildOrder, i \in 0..MaxChildIpix, f \in Formats,
          frame \in {"icrs", "galactic"}, w \in 1..MaxChildWidth :
          LET meta == HipsTileMeta(o, i, f, frame, DefaultWidth)
          IN  call = [fn |-> "children",
                      tile |-> HipsTile(meta, ServerBytes(tile_url(hips_survey, meta).value,
                                                          2 * w))]

Children ==
    /\ call.fn = "children"
    /\ ret = NoRet
    /\ ret' = Returned(children(call.tile))
    /\ UNCHANGED <<caller, hips_survey, fetchVars, paintVars, call>>

SpecChildren == InitChildren /\ [][Children]_vars

\* ----------------------------------------------- a HipsTile object's life
\* A tile object made by HipsTile(meta, raw_data), HipsTile.read or
\* HipsTile.fetch, then read through its data property up to MaxReads times.
\* call.to_numpy_calls counts the invocations of the decoder (to_numpy).  The
\* bytes are a tile file in the format of the name asked for; "bmp" stands for
\* any format to_numpy has no decoder for.
MaxReads == 3
MaxObjIpix == 1
MaxObjWidth == 2

InitTileObject ==
    /\ caller = "HipsTile"
    /\ InitIdle
    /\ hips_survey = DSS2Survey
    /\ geometry = NoGeometry
    /\ \E via \in {"__init__", "read", "fetch"}, i \in 0..MaxObjIpix,
          f \in Formats \cup {"bmp"}, w \in 1..MaxObjWidth :
          LET meta == HipsTileMeta(DirectOrder, i, f, "icrs", DefaultWidth)
          IN  call = [fn |-> via, meta |-> meta,
                      raw_data |-> ServerBytes(tile_url(hips_survey, meta).value, w),
                      to_numpy_calls |-> 0]

\* HipsTile.__init__ (reached directly, or from read / fetch with the bytes of
\* the file / the response): meta, raw_data, _data = None.
NewTile ==
    /\ call.fn \in {"__init__", "read", "fetch"}
    /\ call' = [fn |-> "data",
                tile |-> [meta |-> call.meta, raw_data |-> call.raw_data, _data |-> None],
                to_numpy_calls |-> call.to_numpy_calls,
                reads |-> 0]
    /\ UNCHANGED <<caller, hips_survey, fetchVars, paintVars, ret>>

\* Mutant: the data property without its cache.
ReadData_uncached ==
    /\ call.fn = "data"
    /\ call.reads < MaxReads
    /\ LET decoded == to_numpy(call.tile.raw_data, call.tile.meta.file_format)
       IN  /\ call' = [call EXCEPT !.reads = @ + 1, !.to_numpy_calls = @ + 1]
           /\ ret' = Outcome(decoded)
    /\ UNCHANGED <<caller, hips_survey, fetchVars, paintVars>>

\* HipsTile.data: decode if self._data is None, return self._data.
ReadData ==
    /\ call.fn = "data"
    /\ call.reads < MaxReads
    /\ IF call.tile._data = None
       THEN LET decoded == to_numpy(call.tile.raw_data, call.tile.meta.file_format)
            IN  IF decoded.raised
                THEN /\ call' = [call EXCEPT !.reads = @ + 1, !.to_numpy_calls = @ + 1]
                     /\ ret' = Raised(decoded.exc)
                ELSE /\ call' = [call EXCEPT !.reads = @ + 1, !.to_numpy_calls = @ + 1,
                                             !.tile._data = Some(decoded.value)]
                     /\ ret' = Returned(decoded.value)
       ELSE /\ call' = [call EXCEPT !.reads = @ + 1]
            /\ ret' = Returned(call.tile._data.v)
    /\ UNCHANGED <<caller, hips_survey, fetchVars, paintVars>>

SpecTileObject == InitTileObject /\ [][NewTile \/ ReadData]_vars

\* painter.draw_all_tiles() on a painter whose draw list has been set: tiles
\* of the draw order with distinct indices, in any sequence, on output images
\* where a pixel may lie on the seam of two tiles.
DistinctSeqs(S, n) ==
    {s \in SeqsUpTo(S, n) : \A i, j \in 1..Len(s) : s[i] = s[j] => i = j}

SeamGeometries ==
    {[Geometry(15, s) EXCEPT !.shape.height = h, !.shape.width = Len(s) \div h]
        @@ [seam |-> m] :
        s \in SeqsUpTo(Ipix, MaxPixels) \ {<<>>}, m \in SeqsUpTo(Ipix \cup {NoTile}, MaxPixels),
        h \in 1..MaxPixels}

InitDraw ==
    /\ caller = "draw_all_tiles"
    /\ hips_survey = DSS2Survey
    /\ fetch_package = "urllib"
    /\ n_parallel = DefaultParallel
    /\ tile_metas = <<>>
    /\ fetch_pc = "idle"
    /\ InitFetchIdle
    /\ geometry \in {g \in SeamGeometries :
                        /\ Len(g.seam) = Len(g.pix_hpx)
                        /\ g.shape.height * g.shape.width = Len(g.pix_hpx)}
    /\ tile_format \in Formats
    /\ precise = FALSE
    /\ _tiles = None
    /\ draw_tiles \in
           {Some([k \in 1..Len(s) |->
                     LET meta == HipsTileMeta(draw_hips_order(geometry, hips_survey), s[k],
                                              tile_format, astropy_frame(hips_survey),
                                              DefaultWidth)
                     IN  HipsTile(meta, ServerBytes(tile_url(hips_survey, meta).value,
                                                    tile_width(hips_survey)))]) :
               s \in DistinctSeqs(Ipix, MaxTiles)}
    /\ float_image = None
    /\ _stats = [x \in {} |-> 0]
    /\ result = [kind |-> "none"]
    /\ paint_pc = "draw_all_tiles"
    /\ call = NoCall /\ ret = NoRet

SpecDraw == InitDraw /\ [][DrawAllTiles]_vars

\* make_sky_image on images whose pixels lie in the first and in the last
\* HEALPix pixel of the draw order, for a survey whose native order is 0 and
\* for DSS2 (order 9).
InitRender ==
    /\ caller = "painter"
    /\ hips_survey \in {DSS2Survey, [DSS2Survey EXCEPT !.hips_order = 0]}
    /\ fetch_package = "urllib"
    /\ n_parallel = DefaultParallel
    /\ tile_metas = <<>>
    /\ fetch_pc = "idle"
    /\ InitFetchIdle
    /\ geometry \in
           {Geometry(15, s) :
               s \in SeqsUpTo({0, 12 * Pow2(2 * draw_hips_order(Geometry(15, <<>>), hips_survey))
                                    - 1},
                              MaxPixels)}
    /\ tile_format \in {"fits", "png"}
    /\ precise \in BOOLEAN
    /\ paint_pc = "run"
    /\ InitPaintIdle
    /\ call = NoCall /\ ret = NoRet

SpecRender == InitRender /\ [][Next]_vars

\* ------------------------------------------------ a HipsPainter's life
\* One painter on which tiles, image, make_tile_list() and run() are used in
\* any sequence, up to MaxAccesses times.  call.fetch_calls counts the
\* invocations of fetch_tiles; a fetch returns one of the lists fetch_tiles can
\* return for the painter's addresses, or raises.
MaxAccesses == 3

FetchResults(metas, survey) ==
    LET urls == tile_urls(metas, survey).value
        responses == [i \in 1..Len(urls) |-> fetch_tile(urls[i], survey)]
    IN  {Ok(SortTiles(urls, [k \in 1..Len(urls) |-> responses[f[k]]], metas, 1)) :
            f \in VisitOrders(Len(urls))}
        \cup (IF Len(urls) = 0 THEN {} ELSE {Raise(o) : o \in Outcomes \ {"ok"}})

\* Mutant: the tiles property without its cache.
painter_tiles_uncached(cached, fetched) ==
    [called |-> TRUE,
     outcome |-> fetched,
     _tiles |-> IF fetched.raised THEN cached ELSE Some(fetched.value)]

\* HipsPainter.tiles: fetch_tiles is called if self._tiles is None, its
\* result stored; self._tiles is returned.
painter_tiles(cached, fetched) ==
    IF cached = None
    THEN [called |-> TRUE,
          outcome |-> fetched,
          _tiles |-> IF fetched.raised THEN cached ELSE Some(fetched.value)]
    ELSE [called |-> FALSE, outcome |-> Ok(cached.v), _tiles |-> cached]

InitPainterObject ==
    /\ caller = "HipsPainter"
    /\ hips_survey = DSS2Survey
    /\ fetch_package = "urllib"
    /\ n_parallel = DefaultParallel
    /\ tile_metas = <<>>
    /\ fetch_pc = "idle"
    /\ InitFetchIdle
    /\ geometry \in {Geometry(15, s) : s \in SeqsUpTo(Ipix, MaxPixels)}
    /\ tile_format = "fits"
    /\ precise \in BOOLEAN
    /\ paint_pc = "idle"
    /\ InitPaintIdle
    /\ call = [fn |-> "HipsPainter", accesses |-> 0, fetch_calls |-> 0]
    /\ ret = NoRet

Accessed(t) == [call EXCEPT !.accesses = @ + 1,
                            !.fetch_calls = @ + (IF t.called THEN 1 ELSE 0)]

\* painter.tiles
AccessTiles(fetched) ==
    /\ call.fn = "HipsPainter" /\ call.accesses < MaxAccesses
    /\ LET t == painter_tiles(_tiles, fetched)
       IN  /\ _tiles' = t._tiles
           /\ call' = Accessed(t)
           /\ ret' = Outcome(t.outcome)
    /\ UNCHANGED <<caller, hips_survey, fetchVars, geometry, tile_format, precise,
                   draw_tiles, float_image, _stats, paint_pc, result>>

\* painter.image: self.float_image.astype(self.tiles[0].data.dtype); the
\* attribute lookup on float_image comes first.
AccessImage(fetched) ==
    /\ call.fn = "HipsPainter" /\ call.accesses < MaxAccesses
    /\ IF float_image = None
       THEN /\ call' = [call EXCEPT !.accesses = @ + 1]
            /\ ret' = Raised("AttributeError")
            /\ UNCHANGED _tiles
       ELSE LET t == painter_tiles(_tiles, fetched)
            IN  /\ _tiles' = t._tiles
                /\ call' = Accessed(t)
                /\ ret' = IF t.outcome.raised THEN Raised(t.outcome.exc)
                          ELSE IF Len(t.outcome.value) = 0 THEN Raised("IndexError")
                          ELSE Returned([float_image.v EXCEPT
                                            !.dtype = DataDtype(t.outcome.value[1])])
    /\ UNCHANGED <<caller, hips_survey, fetchVars, geometry, tile_format, precise,
                   draw_tiles, float_image, _stats, paint_pc, result>>

\* painter.make_tile_list()
CallMakeTileList(fetched) ==
    /\ call.fn = "HipsPainter" /\ call.accesses < MaxAccesses
    /\ LET t == painter_tiles(_tiles, fetched)
           made == make_tile_list(geometry, precise, t.outcome.value)
       IN  /\ _tiles' = t._tiles
           /\ call' = Accessed(t)
           /\ IF t.outcome.raised
              THEN ret' = Raised(t.outcome.exc) /\ UNCHANGED draw_tiles
              ELSE IF made.raised
              THEN ret' = Raised(made.exc) /\ UNCHANGED draw_tiles
              ELSE ret' = Returned(None) /\ draw_tiles' = Some(made.draw_tiles)
    /\ UNCHANGED <<caller, hips_survey, fetchVars, geometry, tile_format, precise,
                   float_image, _stats, paint_pc, result>>

\* painter.run(): make_tile_list, draw_all_tiles, the statistics.
CallRun(fetched) ==
    /\ call.fn = "HipsPainter" /\ call.accesses < MaxAccesses
    /\ LET t == painter_tiles(_tiles, fetched)
           made == make_tile_list(geometry, precise, t.outcome.value)
           image == _make_empty_sky_image(geometry, tile_format)
       IN  /\ _tiles' = t._tiles
           /\ call' = Accessed(t)
           /\ IF t.outcome.raised
              THEN ret' = Raised(t.outcome.exc) /\ UNCHANGED <<draw_tiles, float_image, _stats>>
              ELSE IF made.raised
              THEN ret' = Raised(made.exc) /\ UNCHANGED <<draw_tiles, float_image, _stats>>
              ELSE /\ ret' = Returned(None)
                   /\ draw_tiles' = Some(made.draw_tiles)
                   /\ float_image' = Some(draw_all_tiles(geometry, hips_survey, image.value,
                                                         made.draw_tiles, 1))
                   /\ _stats' = [tile_count |-> Len(made.draw_tiles),
                                 consumed_memory |-> consumed_memory(made.draw_tiles, 1)]
    /\ UNCHANGED <<caller, hips_survey, fetchVars, geometry, tile_format, precise,
                   paint_pc, result>>

NextPainterObject ==
    \E fetched \in FetchResults(PainterTileMetas(geometry, hips_survey, tile_format),
                                hips_survey) :
        \/ AccessTiles(fetched)
        \/ AccessImage(fetched)
        \/ CallMakeTileList(fetched)
        \/ CallRun(fetched)

SpecPainterObject == InitPainterObject /\ [][NextPainterObject]_vars

\* ------------------------------------------------------- draw/healpix.py
\* A HEALPix map is named by its number of pixels and channels; its pixel p
\* holds the value named p.  A tile array cut from it is the table `px` of the
\* map pixels it shows ((row, column) -> p), `of` naming the map.

\* hips_tile_healpix_ipix_array: [[0, 1], [2, 3]] for shift order 1, else four
\* copies of the table of shift_order - 1, each with its offset added.
RECURSIVE hips_tile_healpix_ipix_array(_)
hips_tile_healpix_ipix_array(shift_order) ==
    IF shift_order < 1 \/ shift_order > 16 THEN Raise("ValueError")
    ELSE IF shift_order = 1
    THEN Ok([r \in 0..1, c \in 0..1 |-> 2 * r + c])
    ELSE LET ipix_parent == hips_tile_healpix_ipix_array(shift_order - 1).value
             repeats == Pow2(shift_order - 1)
         IN  Ok([r \in 0..(2 * repeats - 1), c \in 0..(2 * repeats - 1) |->
                    ipix_parent[r % repeats, c % repeats]
                    + (repeats * repeats) * (2 * (r \div repeats) + (c \div repeats))])

\* np.rot90 of an n x n table
rot90(m, n) == [i \in 0..(n - 1), j \in 0..(n - 1) |-> m[j, n - 1 - i]]

\* hpx_data.size
hpx_size(hpx_data) ==
    hpx_data.npix * (IF hpx_data.channels = 0 THEN 1 ELSE hpx_data.channels)

\* hp.npix2nside: ValueError unless npix is 12 * nside^2.
npix2nside(npix) ==
    IF npix % 12 = 0 /\ IntSqrt(npix \div 12) * IntSqrt(npix \div 12) = npix \div 12
    THEN Ok(IntSqrt(npix \div 12))
    ELSE Raise("ValueError")

\* int(np.log2(x)), x >= 1
RECURSIVE IntLog2(_)
IntLog2(x) == IF x < 2 THEN 0 ELSE 1 + IntLog2(x \div 2)

healpix_to_hips_tile(hpx_data, tile_width_, tile_idx, file_format) ==
    LET shift_order == IntLog2(tile_width_)
        hpx_ipix == hips_tile_healpix_ipix_array(shift_order)
        offset_ipix == tile_idx * tile_width_ * tile_width_
        ipix == [rc \in DOMAIN hpx_ipix.value |-> hpx_ipix.value[rc] + offset_ipix]
        data == [of |-> <<"hpx_data", hpx_data.npix>>, r0 |-> 0, c0 |-> 0,
                 w |-> tile_width_, flipped |-> FALSE, channels |-> hpx_data.channels,
                 px |-> rot90(ipix, tile_width_)]
        hpx_nside == npix2nside(hpx_size(hpx_data) \div (tile_width_ * tile_width_))
        meta == HipsTileMeta(IntLog2(hpx_nside.value), tile_idx, file_format, "galactic",
                             tile_width_)
    IN  IF hpx_ipix.raised THEN hpx_ipix
        ELSE IF \E rc \in DOMAIN ipix : ipix[rc] >= hpx_data.npix THEN Raise("IndexError")
        ELSE IF hpx_nside.raised THEN hpx_nside
        ELSE from_numpy(meta, data)

\* tile.data[i, j] of a tile cut from a map: the map pixel it shows
MapTilePixel(data, i, j) == data.px[IF data.flipped THEN data.w - 1 - i ELSE i, j]

\* healpix_to_hips_tile for the maps of tiles of order 0..MaxMapOrder and width
\* 2..2^MaxShift, every tile index, stored as fits (one value per pixel), jpg
\* (grey or RGB) or png (grey or RGBA).
MaxMapOrder == 1
MaxShift == 2

MapChannels == [fits |-> {0}, jpg |-> {0, 3}, png |-> {0, 4}]

InitHealpix ==
    /\ caller = "healpix_to_hips_tile"
    /\ InitIdle
    /\ hips_survey = DSS2Survey
    /\ geometry = NoGeometry
    /\ \E o \in 0..MaxMapOrder, s \in 1..MaxShift, f \in Formats :
          \E t \in 0..(healpix_order_to_npix(o) - 1), ch \in MapChannels[f] :
              call = [fn |-> "healpix_to_hips_tile",
                      hpx_data |-> [npix |-> healpix_order_to_npix(o) * Pow2(2 * s),
                                    channels |-> ch],
                      tile_width |-> Pow2(s), tile_idx |-> t, file_format |-> f]

HealpixToHipsTile ==
    /\ call.fn = "healpix_to_hips_tile"
    /\ ret = NoRet
    /\ ret' = Outcome(healpix_to_hips_tile(call.hpx_data, call.tile_width, call.tile_idx,
                                           call.file_format))
    /\ UNCHANGED <<caller, hips_survey, fetchVars, paintVars, call>>

SpecHealpix == InitHealpix /\ [][HealpixToHipsTile]_vars

\* ------------------------------------------------------------- claims
\* C1: the i-th tile fetch_tiles returns carries the i-th requested address
\* and the payload fetched from that address's URL, whatever the completion
\* order.
C1_ResultFollowsRequestOrder ==
    (caller = "fetch_tiles" /\ fetch_pc = "returned") =>
        \A i \in 1..Len(tile_metas) :
            /\ i <= Len(fetch_ret.tiles)
            /\ fetch_ret.tiles[i].meta = tile_metas[i]
            /\ fetch_ret.tiles[i].raw_data =
                   ServerBytes(tile_url(hips_survey, tile_metas[i]).value,
                               tile_width(hips_survey))

\* C2: a fetch that times out or fails does not make fetch_tiles raise.
C2_FailedFetchDoesNotRaise ==
    (caller = "fetch_tiles" /\ \E k \in 1..Len(completed) : completed[k].outcome # "ok") =>
        fetch_pc # "raised"

\* C3: fetch_tiles returns exactly one tile per input address.
C3_OneTilePerAddress ==
    (caller = "fetch_tiles" /\ fetch_pc = "returned") =>
        Len(fetch_ret.tiles) = Len(tile_metas)

\* C4: a render some of whose tiles are unreachable completes without raising.
C4_RenderSurvivesUnreachableTiles ==
    (caller = "painter" /\ \E k \in 1..Len(completed) : completed[k].outcome # "ok") =>
        paint_pc # "raised"

\* C5: with n_parallel >= 1, at most n_parallel fetches are in flight in every
\* reachable state of a batch fetch, with either backend.
C5_InFlightBounded ==
    n_parallel >= 1 => Cardinality(Running) <= n_parallel

C5_Witness ==
    /\ caller = "fetch_tiles"
    /\ fetch_package = "aiohttp"
    /\ n_parallel >= 1
    /\ Cardinality(Running) = n_parallel
    /\ Queued # {}

\* C6: with an empty draw list, running the painter and reading its image
\* yields an all-zero image of the output shape, not an error.
C6_EmptyDrawListGivesZeroImage ==
    (caller = "painter" /\ tile_format \in Formats /\ paint_pc \in {"done", "raised"}
        /\ draw_tiles = Some(<<>>)) =>
        /\ result.kind = "return"
        /\ result.image.shape =
               compute_image_shape(geometry.shape.width, geometry.shape.height,
                                   tile_format).value
        /\ \A p \in DOMAIN result.image.px : result.image.px[p] = 0

\* C7: the draw order is min(desired order, native order), so it never
\* exceeds the survey's native order.
C7_DrawOrderClipped ==
    ret.done =>
        LET desired == hips_order_for_pixel_resolution(tile_width(hips_survey),
                                                       geometry.resolution)
            native == hips_order(hips_survey)
        IN  /\ ret.value <= native
            /\ ret.value <= desired
            /\ ret.value \in {desired, native}

C7_Witness ==
    /\ ret.done
    /\ hips_order_for_pixel_resolution(tile_width(hips_survey), geometry.resolution)
           > hips_order(hips_survey)
    /\ ret.value = hips_order(hips_survey)

\* C8: for a fixed tile width and native order the matched order does not
\* increase with the pixel scale, before and after the clip.
C8_OrderMonotonic ==
    ret.done =>
        \A s \in Resolutions :
            geometry.resolution <= s =>
                /\ draw_hips_order(Geometry(s, <<>>), hips_survey) <= ret.value
                /\ hips_order_for_pixel_resolution(tile_width(hips_survey), s)
                       <= hips_order_for_pixel_resolution(tile_width(hips_survey),
                                                          geometry.resolution)

C8_Witness ==
    /\ ret.done
    /\ \E s \in Resolutions :
           /\ geometry.resolution < s
           /\ draw_hips_order(Geometry(s, <<>>), hips_survey) < ret.value

\* C9: the resolved tile list holds exactly the HEALPix indices of the image
\* pixels, none twice, and is the same for every pixel traversal order.
C9_TileSetExact ==
    ret.done =>
        /\ Range(ret.value) = {geometry.pix_hpx[p] : p \in 1..Len(geometry.pix_hpx)}
        /\ \A i, j \in 1..Len(ret.value) : ret.value[i] = ret.value[j] => i = j
        /\ ret.value = healpix_pixels_in_sky_image(geometry, RowMajor(geometry))

C9_Witness ==
    /\ ret.done
    /\ call.visit # RowMajor(geometry)
    /\ Len(ret.value) = 2
    /\ Len(geometry.pix_hpx) = 3

\* C10: is_tile_distorted is true exactly when an edge is longer than 300 or
\* a diagonal is longer than 150 and min/max of the diagonals is below 0.7,
\* both strict: a square of edge 300 is not distorted, one of edge 301 is, and
\* a diagonal ratio of exactly 0.7 is not.
C10_DistortedExactly ==
    ret.done =>
        LET x == call.corners.x
            y == call.corners.y
            d2(i, j) == (x[i] - x[j]) * (x[i] - x[j]) + (y[i] - y[j]) * (y[i] - y[j])
            p == d2(1, 3)
            q == d2(2, 4)
        IN  /\ ret.value <=>
                  \/ \E i \in 1..4 : d2(i, (i % 4) + 1) > 300 * 300
                  \/ /\ (p > 150 * 150 \/ q > 150 * 150)
                     /\ (100 * p < 49 * q \/ 100 * q < 49 * p)
            /\ call.corners = Square(300) => ~ret.value
            /\ call.corners = Square(301) => ret.value
            /\ call.corners = Kite(100, 70) => ~ret.value

C10_Witness ==
    /\ ret.done
    /\ call.corners = Kite(100, 70)
    /\ ~ret.value

\* C11: for every order 0..3 and every lossless packed all-sky array,
\* splitting it into its tiles and packing the tiles again gives an array of
\* the same shape and the same pixel values.
C11_AllskyRoundTrip ==
    call.fn = "tiles_to_allsky_array" =>
        ret.value = ArrayValues(TileData(call.allsky))

\* C12: the tile URL is the base URL followed by the segments Norder{order},
\* Dir{d} and Npix{ipix}.{format}, d being the multiple of 10000 with
\* d <= ipix < d + 10000; computing it changes neither the address nor the
\* survey descriptor and starts no fetch.
C12_UrlShape ==
    (ret.done /\ ~ret.raised) =>
        LET meta == call.tile_meta
            url == ret.value
            n == Len(url)
        IN  /\ n = Len(base_url(hips_survey).value) + 3
            /\ SubSeq(url, 1, n - 3) = base_url(hips_survey).value
            /\ url[n - 2] = <<"Norder", meta.order>>
            /\ url[n - 1][1] = "Dir"
            /\ url[n - 1][2] % 10000 = 0
            /\ url[n - 1][2] <= meta.ipix /\ meta.ipix < url[n - 1][2] + 10000
            /\ url[n] = <<"Npix", meta.ipix, meta.file_format>>

C12_TileUrl ==
    /\ []C12_UrlShape
    /\ [][UNCHANGED <<hips_survey, call, fetchVars>>]_vars

C12_Witness ==
    /\ ret.done /\ ~ret.raised
    /\ call.tile_meta.ipix = 2 * 10000 - 1
    /\ ret.value[Len(ret.value) - 1] = <<"Dir", 10000>>

\* C13: the base URL is the service URL if present, else the MOC access URL
\* without its last path segment, else the properties URL; with none of the
\* three, the tile URL is an error and no value.
C13_BaseUrlFallbacks ==
    ret.done =>
        LET sv == hips_survey
            base == SubSeq(ret.value, 1, Len(ret.value) - 3)
        IN  IF "hips_service_url" \in DOMAIN sv
            THEN ~ret.raised /\ base = sv.hips_service_url
            ELSE IF "moc_access_url" \in DOMAIN sv
            THEN ~ret.raised /\ \E last \in {"Moc.fits"} : base \o <<last>> = sv.moc_access_url
            ELSE IF "properties_url" \in DOMAIN sv
            THEN ~ret.raised /\ base = sv.properties_url
            ELSE ret.raised

C13_Witness ==
    /\ ret.done /\ ~ret.raised
    /\ "hips_service_url" \notin DOMAIN hips_survey
    /\ "moc_access_url" \in DOMAIN hips_survey
    /\ "properties_url" \in DOMAIN hips_survey
    /\ Len(hips_survey.moc_access_url) = 3

\* C14: a tile format outside {fits, jpg, png} is an error raised where the
\* format is first used: once the painter has built tile addresses with such
\* a format the render has failed, and it never returns an image.
C14_BadFormatRaisesAtFirstUse ==
    (caller = "painter" /\ tile_format \notin {"fits", "jpg", "png"}) =>
        /\ (\E k \in 1..Len(tile_metas) : tile_metas[k].file_format = tile_format)
               => paint_pc = "raised"
        /\ result.kind # "return"

\* C15: order matching fails exactly when the pixel scale is <= 0; no order
\* is returned for a non-positive pixel scale.
C15_FailsIffScaleNotPositive ==
    ret.done => (ret.raised <=> call.resolution <= 0)

\* C16: a batch fetch called with zero or negative n_parallel raises and
\* returns no result list, with either backend.
C16_NoParallelismRaises ==
    (caller = "fetch_tiles" /\ n_parallel <= 0) => fetch_pc # "returned"

\* C17: a survey tile width that is not a power of two is signalled as an
\* error: the render does not get past resolving the order with such a width
\* and returns no image.
C17_IsPowerOfTwo(n) == \E k \in 0..20 : n = Pow2(k)

C17_BadTileWidthFails ==
    (caller = "painter" /\ ~C17_IsPowerOfTwo(tile_width(hips_survey))) =>
        /\ paint_pc \in {"run", "raised"}
        /\ result.kind # "return"

\* C18: in a render the order and the tiles are resolved before the fetch
\* starts, the draw list is made after the fetch has returned, the output
\* accumulator is written only by the drawing step, when every fetch of the
\* batch has completed and none is in flight, and the phases follow each
\* other in that one order up to the result.
C18_PhaseState ==
    caller = "painter" =>
        /\ fetch_pc # "idle" =>
               tile_metas = PainterTileMetas(geometry, hips_survey, tile_format)
        /\ draw_tiles # None => fetch_pc = "returned"
        /\ float_image # None =>
               /\ draw_tiles # None
               /\ fetch_pc = "returned"
               /\ Running = {} /\ Queued = {}
               /\ Collected = Len(tile_metas)
        /\ result.kind = "return" => float_image # None

C18_PhaseStep ==
    /\ float_image' # float_image =>
           /\ paint_pc = "draw_all_tiles" /\ paint_pc' = "stats"
           /\ fetch_pc = "returned"
           /\ Running = {} /\ Queued = {}
    /\ paint_pc' # paint_pc =>
           \/ paint_pc' = "raised"
           \/ <<paint_pc, paint_pc'>> \in
                  {<<"run", "make_tile_list">>, <<"make_tile_list", "draw_all_tiles">>,
                   <<"draw_all_tiles", "stats">>, <<"stats", "from_painter">>,
                   <<"from_painter", "done">>}

C18_PhasesInOrder == []C18_PhaseState /\ [][C18_PhaseStep]_vars

C18_Witness ==
    /\ caller = "painter"
    /\ paint_pc = "done"
    /\ precise
    /\ Len(draw_tiles.v) > Len(_tiles.v)
    /\ float_image # None

\* C19: in precise mode make_tile_list completes for every fetched list, and
\* the draw list is, parent by parent, the tile itself if it is not distorted
\* and its four children (order + 1, indices 4i..4i+3) if it is, so that every
\* draw tile has the draw order or the draw order plus one; in non-precise
\* mode the draw list is the fetched list.
C19_Expected(parents) ==
    LET RECURSIVE Concat(_)
        Concat(k) ==
            IF k > Len(parents) THEN <<>>
            ELSE (IF is_tile_distorted(SkyCornersToPixel(geometry, parents[k].meta))
                  THEN [c \in 1..4 |-> <<parents[k].meta.order + 1,
                                         4 * parents[k].meta.ipix + c - 1>>]
                  ELSE << <<parents[k].meta.order, parents[k].meta.ipix>> >>)
                 \o Concat(k + 1)
    IN  Concat(1)

C19_DrawListRefinedOnce ==
    (caller = "painter" /\ tile_format \in Formats /\ _tiles # None) =>
        /\ draw_tiles # None
        /\ precise =>
               /\ [k \in 1..Len(draw_tiles.v) |->
                      <<draw_tiles.v[k].meta.order, draw_tiles.v[k].meta.ipix>>]
                  = C19_Expected(_tiles.v)
               /\ \A k \in 1..Len(draw_tiles.v) :
                      draw_tiles.v[k].meta.order - draw_hips_order(geometry, hips_survey)
                          \in {0, 1}
        /\ ~precise => draw_tiles.v = _tiles.v

\* C20: children returns four tiles of order o + 1 with indices 4i, 4i+1,
\* 4i+2, 4i+3 in that sequence, with the parent's format and frame, whose pixel
\* arrays are the parent's top-left, top-right, bottom-left and bottom-right
\* w x w quadrants; the four arrays partition the parent's pixels.
C20_Px(data, r, c) == <<data.of, ArrayPixel(data, r, c)>>

C20_Addresses ==
    /\ Len(ret.value) = 4
    /\ \A idx \in 1..4 :
           /\ ret.value[idx].meta.order = call.tile.meta.order + 1
           /\ ret.value[idx].meta.ipix = 4 * call.tile.meta.ipix + idx - 1
           /\ ret.value[idx].meta.file_format = call.tile.meta.file_format
           /\ ret.value[idx].meta.frame = call.tile.meta.frame

\* Child idx shows, pixel by pixel, its quadrant of the parent's array.
C20_Quadrants(SamePixel(_, _, _, _, _, _)) ==
    LET parent == TileData(call.tile)
        w == parent.w \div 2
    IN  /\ \A idx \in 1..4 :
               /\ ArrayHeight(TileData(ret.value[idx])) = w
               /\ TileData(ret.value[idx]).w = w
               /\ \A r, c \in 0..(w - 1) :
                      SamePixel(TileData(ret.value[idx]), r, c,
                                parent, r + w * ((idx - 1) \div 2), c + w * ((idx - 1) % 2))
        /\ \A r, c \in 0..(2 * w - 1) :
               Cardinality({q \in (1..4) \X (0..(w - 1)) \X (0..(w - 1)) :
                               ArrayPixel(TileData(ret.value[q[1]]), q[2], q[3])
                                   = ArrayPixel(parent, r, c)}) = 1

C20_ChildrenAreQuadrants ==
    ret.done =>
        /\ C20_Addresses
        /\ C20_Quadrants(LAMBDA child, r, c, parent, pr, pc :
                             C20_Px(child, r, c) = C20_Px(parent, pr, pc))

\* C20 amended: as C20 for the lossless formats fits and png; the pixel array
\* of a child of a jpg tile is the JPEG re-encoding of its quadrant.
C20_ChildrenAreQuadrantsLossless ==
    ret.done =>
        /\ C20_Addresses
        /\ C20_Quadrants(LAMBDA child, r, c, parent, pr, pc :
                             /\ ArrayPixel(child, r, c) = ArrayPixel(parent, pr, pc)
                             /\ child.of = IF call.tile.meta.file_format = "jpg"
                                           THEN Append(parent.of, "jpeg") ELSE parent.of)

C20_Witness ==
    /\ ret.done
    /\ call.tile.meta.file_format = "png"
    /\ call.tile.meta.ipix = 3
    /\ TileData(call.tile).w = 4
    /\ ret.value[4].meta.ipix = 15

\* C21: for every tile width and positive pixel scale the desired order is the
\* smallest order o in 3..29 whose tile pixel resolution r(o) is <= the pixel
\* scale (r(o) <= scale iff NsideOneRes100 <= 100 * scale * tile_width * 2^o);
\* it is never below 3 and never above 29.
C21_ResolutionAtMost(o, tile_width_, scale) ==
    (NsideOneRes100 + Pow2(o) - 1) \div Pow2(o) <= 100 * scale * tile_width_

C21_SmallestOrderFrom3 ==
    (ret.done /\ call.resolution > 0) =>
        /\ ~ret.raised
        /\ ret.value \in 3..29
        /\ C21_ResolutionAtMost(ret.value, call.tile_width, call.resolution)
        /\ \A o \in 3..(ret.value - 1) :
               ~C21_ResolutionAtMost(o, call.tile_width, call.resolution)

\* C22: creating a tile from bytes does not invoke the decoder; the first read
\* of its pixel data does, and once that read has returned an array no later
\* read invokes the decoder again: every read returns the memoized array, and
\* the raw bytes and the address never change.
C22_DecodedOnce ==
    call.fn = "data" =>
        /\ call.reads = 0 => (call.to_numpy_calls = 0 /\ call.tile._data = None)
        /\ (call.reads >= 1 /\ ~ret.raised) =>
               /\ call.tile._data = Some(TileData(call.tile))
               /\ call.to_numpy_calls = 1
               /\ ret = Returned(call.tile._data.v)
        /\ call.tile._data # None => (call.reads >= 1 /\ ~ret.raised)

\* A step invokes the decoder only in a read that finds nothing memoized.
C22_ReadStep ==
    /\ call.fn \in {"__init__", "read", "fetch"} =>
           /\ call'.to_numpy_calls = call.to_numpy_calls
           /\ call'.tile.raw_data = call.raw_data /\ call'.tile.meta = call.meta
    /\ call.fn = "data" =>
           /\ call'.tile.raw_data = call.tile.raw_data
           /\ call'.tile.meta = call.tile.meta
           /\ call'.to_numpy_calls =
                  call.to_numpy_calls + (IF call.tile._data = None THEN 1 ELSE 0)
           /\ call.tile._data # None => call'.tile._data = call.tile._data

C23_Block(SamePixel(_, _, _, _, _, _)) ==
    LET packed == TileData(call.allsky)
        H == ArrayShape(packed)[1]
        R == IntSqrt(12 * Pow2(2 * call.allsky.meta.order))
        w == ArrayShape(packed)[2] \div R
        i == call.ipix
        tile == ret.value
    IN  /\ tile.meta.ipix = i
        /\ tile.meta.width = w
        /\ tile.meta.order = call.allsky.meta.order
        /\ tile.meta.file_format = call.allsky.meta.file_format
        /\ ArrayHeight(TileData(tile)) = w /\ TileData(tile).w = w
        /\ TileData(tile).channels = packed.channels
        /\ \A r, c \in 0..(w - 1) :
               SamePixel(TileData(tile), r, c,
                         packed, H - 1 - ((i \div R) * w + w - 1 - r), (i % R) * w + c)

C23_TileIsBlock ==
    /\ [](ret.done =>
             C23_Block(LAMBDA tile, r, c, packed, pr, pc :
                           /\ tile.of = packed.of
                           /\ ArrayPixel(tile, r, c) = ArrayPixel(packed, pr, pc)))
    /\ [][call' = call]_vars

\* C23 amended: as C23 for the lossless formats fits and png; the pixel array
\* of a tile taken from a jpg all-sky array is the JPEG re-encoding of that
\* block.
C23_TileIsBlockLossless ==
    /\ [](ret.done =>
             C23_Block(LAMBDA tile, r, c, packed, pr, pc :
                           /\ tile.of = IF call.allsky.meta.file_format = "jpg"
                                        THEN Append(packed.of, "jpeg") ELSE packed.of
                           /\ ArrayPixel(tile, r, c) = ArrayPixel(packed, pr, pc)))
    /\ [][call' = call]_vars

C23_Witness ==
    /\ ret.done
    /\ call.allsky.meta.file_format = "png"
    /\ call.allsky.meta.order = 1
    /\ call.ipix = 13
    /\ ret.value.meta.width = 2
    /\ ArrayPixel(TileData(ret.value), 0, 0) = <<ArrayHeight(TileData(call.allsky)) - 6, 2>>

\* C24: the accumulator has shape (height, width) for fits, (height, width, 3)
\* for jpg and (height, width, 4) for png, and after drawing every pixel holds
\* the sum of the values the warped images of the draw-list tiles have there
\* (zero where none covers it, the sum where several do); drawing the same
\* tiles in any other sequence gives the same image.
RECURSIVE C24_Sum(_, _)
C24_Sum(values, k) == IF k = 0 THEN 0 ELSE values[k] + C24_Sum(values, k - 1)

C24_Reorderings(tiles) ==
    {[k \in 1..Len(tiles) |-> tiles[f[k]]] : f \in VisitOrders(Len(tiles))}

C25_InSubmissionOrder ==
    SortTiles(_tile_urls,
              [i \in 1..Len(_tile_urls) |-> fetch_tile(_tile_urls[i], hips_survey)],
              tile_metas, 1)

C25_BackendsReturnSameList ==
    (caller = "fetch_tiles" /\ fetch_pc = "returned") =>
        fetch_ret.tiles = C25_InSubmissionOrder

\* C26: every tile address built during a render, of a resolved tile or of a
\* child made by refinement, has 0 <= ipix < 12 * 4^order.
C26_ValidAddress(meta) ==
    /\ meta.order >= 0
    /\ 0 <= meta.ipix
    /\ meta.ipix < 12 * Pow2(2 * meta.order)

C27_FetchedOnce ==
    caller = "HipsPainter" =>
        /\ _tiles # None => call.fetch_calls >= 1
        /\ draw_tiles # None => _tiles # None
        /\ float_image # None => _tiles # None

C27_CacheStep ==
    /\ call'.fetch_calls # call.fetch_calls =>
           (_tiles = None /\ call'.fetch_calls = call.fetch_calls + 1)
    /\ _tiles # None => (_tiles' = _tiles /\ call'.fetch_calls = call.fetch_calls)
    /\ (_tiles = None /\ _tiles' # None) => call'.fetch_calls = call.fetch_calls + 1

RECURSIVE C28_Nested(_, _, _)
C28_Nested(r, c, s) ==
    IF s = 0 THEN 0
    ELSE 2 * (r % 2) + (c % 2) + 4 * C28_Nested(r \div 2, c \div 2, s - 1)

C28_TileIsRotatedNestedBlock ==
    ret.done =>
        LET w == call.tile_width
            s == IntLog2(w)
            t == call.tile_idx
            data == TileData(ret.value)
            Shown == {MapTilePixel(data, i, j) : i, j \in 0..(w - 1)}
        IN  /\ ~ret.raised
            /\ ret.value.meta.ipix = t
            /\ ret.value.meta.width = w
            /\ data.of = <<"hpx_data", call.hpx_data.npix>>
            /\ \A i, j \in 0..(w - 1) :
                   MapTilePixel(data, i, j) = C28_Nested(j, w - 1 - i, s) + t * w * w
            /\ Shown = {p \in 0..(call.hpx_data.npix - 1) : p \div (w * w) = t}
            /\ Cardinality(Shown) = w * w
            /\ (w = 2 /\ t = 0) =>
                   <<MapTilePixel(data, 0, 0), MapTilePixel(data, 0, 1),
                     MapTilePixel(data, 1, 0), MapTilePixel(data, 1, 1)>> = <<1, 3, 0, 2>>
            /\ (w = 2 /\ t = 2) =>
                   <<MapTilePixel(data, 0, 0), MapTilePixel(data, 0, 1),
                     MapTilePixel(data, 1, 0), MapTilePixel(data, 1, 1)>> = <<9, 11, 8, 10>>

\* C29: every tile of the draw list, a fetched tile or a child made by
\* refinement, has meta.width equal to the width of its pixel array, so that
\* the corner coordinates its homography is estimated from are the corners of
\* the array that is warped.
C29_CornersOfArray(tile) ==
    /\ tile.meta.width = TileData(tile).w
    /\ tile_corner_pixel_coordinates(tile.meta.width) =
           LET w == TileData(tile).w - 1
           IN  << <<w, 0>>, <<w, w>>, <<0, w>>, <<0, 0>> >>

C29_MetaWidthIsArrayWidth ==
    (caller = "painter" /\ tile_format \in Formats /\ draw_tiles # None) =>
        \A k \in 1..Len(draw_tiles.v) : C29_CornersOfArray(draw_tiles.v[k])

\* C30: in every draw result, precise or not, the statistics describe the
\* tiles handed back: tile_count is the length of the result's tile list and
\* consumed_memory the sum of the raw byte lengths of those tiles.
C30_StatsDescribeResultTiles ==
    (caller = "painter" /\ result.kind = "return") =>
        /\ result.stats.tile_count = Len(result.tiles)
        /\ result.stats.consumed_memory = consumed_memory(result.tiles, 1)
====
